---------------------------- MODULE Spec2Model ----------------------------
(***************************************************************************)
(* Pricing core of MyBabbittQuote: calculate_product_price over the        *)
(* reference catalog (product variants, materials, standard lengths,       *)
(* material availability) and the quote roll-up properties.                *)
(*                                                                         *)
(* Money is an integer number of mills (1/1000 dollar): 3.75 is 3750.      *)
(* Lengths are whole inches.  A Python Optional is <<>> (None) or <<v>>.   *)
(* A Python str that the code takes apart is a sequence of characters.     *)
(***************************************************************************)
EXTENDS Integers, Sequences, FiniteSets, TLC

VARIABLES
    products,               \* product_variants table: id -> row
    materials,              \* materials table: code -> row (code is unique)
    standard_lengths,       \* standard_lengths table: set of rows
    material_availability,  \* material_availability table: set of rows
    options,                \* options table: id -> row
    quote_items,            \* quote_items of one quote, with their options
    stored_totals,          \* history: the totals as they were at the last store
    args,                   \* the arguments of the call under examination
    result,                 \* its outcome
    calls,                  \* calculate_product_price calls that run side by side
    main_window,            \* MainWindow: tabs, navigation buttons, message box
    quote_tab               \* QuoteTab: product_info, specs, pricing

vars == <<products, materials, standard_lengths, material_availability,
          options, quote_items, stored_totals, args, result,
          calls, main_window, quote_tab>>

\* what the pricing core and the quote rows never touch
elsewhere == <<calls, main_window, quote_tab>>

\* no concurrent calls under way, no window constructed
Idle == calls = <<>> /\ main_window = <<>> /\ quote_tab = <<>>

catalog == <<products, materials, standard_lengths, material_availability,
             options>>

-----------------------------------------------------------------------------
(* Python values *)

None == <<>>
Some(x) == <<x>>
Val(o) == o[1]

\* bool(x) of an Optional[str]: None and "" are falsy
truthy_str(o) == o /= None /\ Val(o) /= ""

\* bool(x) of an Optional[float]: None and 0 are falsy
truthy_num(o) == o /= None /\ Val(o) /= 0

RECURSIVE split(_, _)
\* str.split(sep) on a sequence of characters
split(s, sep) ==
    IF \A i \in 1..Len(s) : s[i] /= sep
    THEN <<s>>
    ELSE LET i == CHOOSE k \in 1..Len(s) :
                      s[k] = sep /\ \A j \in 1..(k - 1) : s[j] /= sep
         IN  <<SubSeq(s, 1, i - 1)>> \o split(SubSeq(s, i + 1, Len(s)), sep)

-----------------------------------------------------------------------------
(* Bounds *)

MaxLength == 3
MaxItems == 1
MaxOptions == 1
MaxQuoteLen == 2
MaxCalls == 2

-----------------------------------------------------------------------------
(* Constants of pricing.py, in mills *)

UHMWPE_ADDER == 20000
TEFLON_ADDER == 60000
RATE_S == 3750
RATE_H_TS == 9170
RATE_U == 40000
RATE_T == 50000

-----------------------------------------------------------------------------
(* Reference data the catalogs are drawn from *)

MaterialCodes == {"S", "H", "TS", "U", "T", "C"}

LS2000 == <<"L","S","2","0","0","0">>
LS7000 == <<"L","S","7","0","0","0">>
LS7000_2 == <<"L","S","7","0","0","0","/","2">>
ProductTypes == {LS2000, LS7000, LS7000_2}

MN_LS2000_S == LS2000 \o <<"-","1","1","5","V","A","C","-","S","-","1","0">>
MN_LS2000_H == LS2000 \o <<"-","1","1","5","V","A","C","-","H","-","1","0">>
MN_LS7000_2_H == LS7000_2 \o <<"-","1","1","5","V","A","C","-","H","-","1","0">>

ProductRow(fam, mn, v, m, bp, bl) ==
    [product_family_id |-> fam, model_number |-> mn, voltage |-> v,
     material |-> m, base_price |-> bp, base_length |-> bl]

PStd == ProductRow(1, MN_LS2000_S, "115VAC", "S", 425000, Some(2))
PHalar == ProductRow(1, MN_LS2000_H, "115VAC", "H", 460000, Some(2))
PDual == ProductRow(2, MN_LS7000_2_H, "115VAC", "H", 770000, None)
PStdDup == ProductRow(1, MN_LS2000_S, "115VAC", "S", 430000, Some(1))
PStd24 == ProductRow(1, MN_LS2000_S, "24VDC", "S", 440000, Some(3))

\* ids 1 and 2 exist, id 3 never does
ProductTables ==
    {[i \in {1, 2} |-> IF i = 1 THEN p ELSE q] :
        p \in {PStd, PHalar, PDual}, q \in {PStd, PStdDup, PStd24}}

ProductIds == {1, 2, 3}

MaterialRow(code, has_sur, sur) ==
    [code |-> code,
     base_length |-> 2,
     length_adder_per_inch |->
         CASE code = "S" -> Some(3750) [] code = "U" -> Some(40000)
           [] code = "T" -> Some(50000) [] OTHER -> None,
     length_adder_per_foot |->
         IF code \in {"H", "TS"} THEN Some(110000) ELSE None,
     has_nonstandard_length_surcharge |-> has_sur,
     nonstandard_length_surcharge |-> sur,
     base_price_adder |->
         CASE code = "U" -> 25000 [] code = "T" -> 65000
           [] code = "H" -> 110000 [] OTHER -> 0]

\* what the materials table may hold for one code
MaterialStates == {"absent", "plain", "surcharge"}

MaterialIn(code, st) ==
    CASE st = "plain" -> MaterialRow(code, FALSE, 0)
      [] st = "surcharge" -> MaterialRow(code, TRUE, 300000)

\* every code but m has a plain record; m is as st says
MaterialTable(m, st) ==
    [c \in (IF st = "absent" THEN MaterialCodes \ {m} ELSE MaterialCodes) |->
        IF c = m THEN MaterialIn(c, st) ELSE MaterialIn(c, "plain")]

StandardLengthRow(c, l) == [material_code |-> c, length |-> l]

StandardLengthValues == {1, 2}

\* every code but m lists every standard length; m lists the lengths of L
StandardLengthTable(m, L) ==
    {StandardLengthRow(c, l) : c \in MaterialCodes \ {m}, l \in StandardLengthValues}
    \cup {StandardLengthRow(m, l) : l \in L}

AvailabilityRow(c, t, b) ==
    [material_code |-> c, product_type |-> t, is_available |-> b]

AvailabilityRowsOf(m) ==
    {AvailabilityRow(m, LS2000, TRUE), AvailabilityRow(m, LS2000, FALSE),
     AvailabilityRow(m, LS7000, TRUE), AvailabilityRow(m, LS7000_2, TRUE)}

OptionRow(price, price_type) == [price |-> price, price_type |-> price_type]

\* one fixed-price option, id 1
OptionTable(price) == [i \in {1} |-> OptionRow(price, "fixed")]

\* every code but m is available for every product type; m has the rows of A
AvailabilityTable(m, A) ==
    {AvailabilityRow(c, t, TRUE) : c \in MaterialCodes \ {m}, t \in ProductTypes}
    \cup A

-----------------------------------------------------------------------------
(* calculate_product_price, src/core/pricing.py *)

\* db.query(Product).filter(Product.id == product_id).first()
query_product(product_id) ==
    IF product_id \in DOMAIN products THEN Some(products[product_id]) ELSE None

\* material_override if material_override else product.material
effective_material_code(product, material_override) ==
    IF truthy_str(material_override) THEN Val(material_override)
    ELSE product.material

\* mutant: a missing material is defaulted to a record that prices nothing
query_material_or_default(material_code) ==
    IF material_code \in DOMAIN materials THEN Some(materials[material_code])
    ELSE Some(MaterialIn(material_code, "plain"))

\* db.query(Material).filter(Material.code == material_code).first()
query_material(material_code) ==
    IF material_code \in DOMAIN materials THEN Some(materials[material_code])
    ELSE None

\* mutant: the check is skipped when the override is the default material
availability_is_checked_if_differs(product, material_override) ==
    truthy_str(material_override) /\ Val(material_override) /= product.material

\* the condition that guards the availability check: if material_override:
availability_is_checked(product, material_override) ==
    truthy_str(material_override)

\* mutant: the sub-type after "/" is dropped
product_type_of_without_subtype(model_number) ==
    split(split(model_number, "-")[1], "/")[1]

\* product.model_number.split('-')[0], and its "/" handling
product_type_of(model_number) ==
    LET product_type == split(model_number, "-")[1]
    IN  IF \E i \in 1..Len(product_type) : product_type[i] = "/"
        THEN split(product_type, "/")[1] \o <<"/">> \o split(product_type, "/")[2]
        ELSE product_type

\* mutant: the is_available == True filter is left out
query_availability_any_flag(material_code, product_type) ==
    \E a \in material_availability :
        a.material_code = material_code /\ a.product_type = product_type

\* the MaterialAvailability query of the check, .first() is not None
query_availability(material_code, product_type) ==
    \E a \in material_availability :
        /\ a.material_code = material_code
        /\ a.product_type = product_type
        /\ a.is_available = TRUE

\* the rows the s_material_product query matches; .first() gives one of them
s_material_products(product) ==
    {products[i] : i \in {j \in DOMAIN products :
        /\ products[j].model_number = product.model_number
        /\ products[j].voltage = product.voltage
        /\ products[j].material = "S"}}

\* .first() of a query without ORDER BY: any matching row, or None
first(rows) == IF rows = {} THEN {None} ELSE {Some(r) : r \in rows}

\* mutant: the premium is read from the Material record
material_premium_from_record(material, material_override) ==
    material.base_price_adder

\* the flat premium the code adds to the S price for an exotic material
material_premium(material, material_override) ==
    CASE Val(material_override) = "U" -> UHMWPE_ADDER
      [] Val(material_override) = "T" -> TEFLON_ADDER
      [] OTHER -> 0

\* whether the override re-bases the price on the S material product
rebases(product, material_override) ==
    /\ truthy_str(material_override)
    /\ Val(material_override) /= product.material
    /\ Val(material_override) \in {"U", "T"}

\* mutant: without an S row the premium is added to the variant's own price
base_price_of_premium_without_sibling(product, material, material_override, s_material_product) ==
    IF rebases(product, material_override)
    THEN (IF s_material_product /= None
          THEN Val(s_material_product).base_price ELSE product.base_price)
         + material_premium(material, material_override)
    ELSE product.base_price

\* price after "Start with base price" and "Material price adjustments"
base_price_of(product, material, material_override, s_material_product) ==
    IF rebases(product, material_override) /\ s_material_product /= None
    THEN Val(s_material_product).base_price
         + material_premium(material, material_override)
    ELSE product.base_price

\* mutant: the extra length is measured from the material's base length
reference_length_of_material(product, material) == Some(material.base_length)

\* the length the extra length is measured from
reference_length(product, material) == product.base_length

\* mutant: the rate is read from the Material record
length_rate_from_record(material, material_code) ==
    IF material.length_adder_per_inch /= None
    THEN Val(material.length_adder_per_inch)
    ELSE IF material.length_adder_per_foot /= None
    THEN Val(material.length_adder_per_foot) \div 12
    ELSE 0

\* the per-inch rate of "Length price adjustments"
length_rate(material, material_code) ==
    CASE material_code = "S" -> RATE_S
      [] material_code \in {"H", "TS"} -> RATE_H_TS
      [] material_code = "U" -> RATE_U
      [] material_code = "T" -> RATE_T
      [] OTHER -> 0

\* length > product.base_length is evaluated and one side is None: TypeError
length_compare_raises(product, material, length) ==
    truthy_num(length) /\ reference_length(product, material) = None

\* mutant: the length > base_length guard is left out
length_adder_unguarded(product, material, material_code, length) ==
    IF truthy_num(length)
    THEN (Val(length) - Val(reference_length(product, material)))
         * length_rate(material, material_code)
    ELSE 0

\* mutant: the extra length is taken with the wrong sign
length_adder_reversed(product, material, material_code, length) ==
    IF truthy_num(length) /\ Val(length) > Val(reference_length(product, material))
    THEN (Val(reference_length(product, material)) - Val(length))
         * length_rate(material, material_code)
    ELSE 0

\* the amount "Length price adjustments" adds
length_adder(product, material, material_code, length) ==
    IF truthy_num(length) /\ Val(length) > Val(reference_length(product, material))
    THEN (Val(length) - Val(reference_length(product, material)))
         * length_rate(material, material_code)
    ELSE 0

\* mutant: the material_code filter is left out
is_standard_any_material(material_code, length) ==
    length /= None /\ \E s \in standard_lengths : s.length = Val(length)

\* mutant: a call without a length counts as a standard length
is_standard_or_no_length(material_code, length) ==
    \/ length = None
    \/ \E s \in standard_lengths :
           s.material_code = material_code /\ s.length = Val(length)

\* the StandardLength query, .first() is not None; == None is IS NULL in SQL
\* and StandardLength.length is NOT NULL
is_standard(material_code, length) ==
    /\ length /= None
    /\ \E s \in standard_lengths :
           s.material_code = material_code /\ s.length = Val(length)

\* whether "Apply non-standard length surcharge" adds the surcharge
surcharge_applies(material, material_code, length) ==
    material.has_nonstandard_length_surcharge /\ ~is_standard(material_code, length)

Outcomes == {"price", "NotFound", "MaterialNotAvailable", "TypeError"}

Raise(kind) ==
    [kind |-> kind, price |-> None, base |-> None, length_adder |-> None,
     surcharge |-> None]

\* raise ValueError("Product with ID ... not found") / ("Material ... not found")
NotFound(what) ==
    [kind |-> "NotFound", what |-> what, price |-> None, base |-> None,
     length_adder |-> None, surcharge |-> None]

Return(base, ladder, sur) ==
    [kind |-> "price", price |-> Some(base + ladder + sur), base |-> Some(base),
     length_adder |-> Some(ladder), surcharge |-> Some(sur)]

\* mutant: an omitted length stays None
default_length_unset(product, length_arg) == length_arg

\* if length is None: length = product.base_length
default_length(product, length_arg) ==
    IF length_arg = None THEN product.base_length ELSE length_arg

\* mutant: the availability check runs before the Material lookup
calculate_product_price_availability_first(product_id, length_arg, material_override, s_pick) ==
    IF query_product(product_id) = None THEN NotFound("Product")
    ELSE
    LET product == Val(query_product(product_id))
        length == IF length_arg = None THEN product.base_length ELSE length_arg
        material_code == effective_material_code(product, material_override)
    IN
    IF /\ availability_is_checked(product, material_override)
       /\ ~query_availability(material_code, product_type_of(product.model_number))
    THEN Raise("MaterialNotAvailable")
    ELSE
    IF query_material(material_code) = None THEN NotFound("Material")
    ELSE
    LET material == Val(query_material(material_code))
        base == base_price_of(product, material, material_override, s_pick)
    IN
    IF length_compare_raises(product, material, length) THEN Raise("TypeError")
    ELSE
    LET ladder == length_adder(product, material, material_code, length) IN
    IF surcharge_applies(material, material_code, length)
    THEN Return(base, ladder, material.nonstandard_length_surcharge)
    ELSE Return(base, ladder, 0)

\* the whole function; s_pick is what the s_material_product query returns
calculate_product_price(product_id, length_arg, material_override, s_pick) ==
    IF query_product(product_id) = None THEN NotFound("Product")
    ELSE
    LET product == Val(query_product(product_id))
        length == default_length(product, length_arg)
        material_code == effective_material_code(product, material_override)
    IN
    IF query_material(material_code) = None THEN NotFound("Material")
    ELSE
    LET material == Val(query_material(material_code)) IN
    IF /\ availability_is_checked(product, material_override)
       /\ ~query_availability(material_code, product_type_of(product.model_number))
    THEN Raise("MaterialNotAvailable")
    ELSE
    LET base == base_price_of(product, material, material_override, s_pick) IN
    IF length_compare_raises(product, material, length) THEN Raise("TypeError")
    ELSE
    LET ladder == length_adder(product, material, material_code, length) IN
    IF surcharge_applies(material, material_code, length)
    THEN Return(base, ladder, material.nonstandard_length_surcharge)
    ELSE Return(base, ladder, 0)

\* what the s_material_product query can return in a call on product_id
s_picks(product_id) ==
    IF product_id \in DOMAIN products
    THEN first(s_material_products(products[product_id]))
    ELSE {None}

-----------------------------------------------------------------------------
(* Quote roll-up, src/core/models/quote.py *)

RECURSIVE sum(_)
\* Python's sum() over a list of numbers
sum(xs) == IF xs = <<>> THEN 0 ELSE Head(xs) + sum(Tail(xs))

\* mutant: the option's quantity is left out
options_total_without_quantity(item) ==
    sum([k \in 1..Len(item.options) |-> item.options[k].price])

\* QuoteItem.options_total
options_total(item) ==
    sum([k \in 1..Len(item.options) |->
            item.options[k].price * item.options[k].quantity])

\* mutant: the unit price is read from the product row, not from the item
unit_price_from_catalog(item) == products[item.product_id].base_price

\* the unit price QuoteItem.subtotal reads: self.unit_price
unit_price_of(item) == item.unit_price

\* QuoteItem.subtotal
subtotal(item) == (unit_price_of(item) * item.quantity) + options_total(item)

\* mutant: the discount is taken on the unit price only, not on the options
discount_amount_on_unit_price(item) ==
    (unit_price_of(item) * item.quantity * item.discount_percent) \div 100

\* QuoteItem.discount_amount; the stored amounts make the division exact
discount_amount(item) == (subtotal(item) * item.discount_percent) \div 100

\* QuoteItem.total
item_total(item) == subtotal(item) - discount_amount(item)

\* mutant: the quote adds up the subtotals, before discount
quote_total_of_subtotals(items) ==
    sum([k \in 1..Len(items) |-> subtotal(items[k])])

\* Quote.total
quote_total(items) == sum([k \in 1..Len(items) |-> item_total(items[k])])

\* every QuoteItem.total of a quote, and its Quote.total
TotalsOf(items) ==
    [items |-> [k \in 1..Len(items) |-> item_total(items[k])],
     quote |-> quote_total(items)]

-----------------------------------------------------------------------------
(* The calls examined *)

Lengths == {None} \cup {Some(l) : l \in 0..MaxLength}

Overrides == {None, Some("")} \cup {Some(c) : c \in MaterialCodes}

ProductPriceArgs ==
    [op : {"calculate_product_price"}, product_id : ProductIds,
     length : Lengths, material_override : Overrides]

Pending == Raise("pending")

\* the material code whose catalog rows a call reads
code_read(ps, a) ==
    IF a.product_id \in DOMAIN ps
    THEN effective_material_code(ps[a.product_id], a.material_override)
    ELSE IF truthy_str(a.material_override) THEN Val(a.material_override)
    ELSE "S"

Init ==
    /\ args \in ProductPriceArgs
    /\ products \in ProductTables
    /\ \E st \in MaterialStates :
           materials = MaterialTable(code_read(products, args), st)
    /\ \E L \in SUBSET StandardLengthValues :
           standard_lengths = StandardLengthTable(code_read(products, args), L)
    /\ \E A \in SUBSET AvailabilityRowsOf(code_read(products, args)) :
           /\ Cardinality(A) <= 2
           /\ material_availability = AvailabilityTable(code_read(products, args), A)
    /\ options = OptionTable(15000)
    /\ quote_items = <<>>
    /\ stored_totals = TotalsOf(<<>>)
    /\ result = Pending
    /\ Idle

\* mutant: the computed price is written back to the product row
CalculateProductPriceStoringPrice ==
    /\ args.op = "calculate_product_price"
    /\ result = Pending
    /\ \E s_pick \in s_picks(args.product_id) :
           LET r == calculate_product_price(args.product_id, args.length,
                                            args.material_override, s_pick)
           IN  /\ result' = r
               /\ products' = IF r.kind = "price"
                              THEN [products EXCEPT
                                       ![args.product_id].base_price = Val(r.price)]
                              ELSE products
    /\ UNCHANGED <<materials, standard_lengths, material_availability, options,
                   quote_items, stored_totals, args>>
    /\ UNCHANGED elsewhere

CalculateProductPrice ==
    /\ args.op = "calculate_product_price"
    /\ result = Pending
    /\ \E s_pick \in s_picks(args.product_id) :
           result' = calculate_product_price(args.product_id, args.length,
                                             args.material_override, s_pick)
    /\ UNCHANGED <<catalog, quote_items, stored_totals, args>>
    /\ UNCHANGED elsewhere

Next == CalculateProductPrice

Spec == Init /\ [][Next]_vars

-----------------------------------------------------------------------------
(* Storing quote rows, and the catalog maintenance that runs beside it *)

Quantities == {1, 2}
DiscountPercents == {0, 10}
BasePrices == {425000, 450000}
OptionPrices == {15000, 18000}

QuoteItemRow(pid, qty, price, len, mat, disc) ==
    [product_id |-> pid, quantity |-> qty, unit_price |-> price,
     length |-> len, material |-> mat, discount_percent |-> disc,
     options |-> <<>>]

QuoteItemOptionRow(oid, qty, price) ==
    [option_id |-> oid, quantity |-> qty, price |-> price]

NoCall ==
    [op |-> "none", product_id |-> 0, length |-> None,
     material_override |-> None]

\* a catalog that sells product 1 in UHMWPE
InitQuote ==
    /\ products = [i \in {1} |-> PStd]
    /\ materials = MaterialTable("U", "plain")
    /\ standard_lengths = StandardLengthTable("U", {})
    /\ material_availability =
           AvailabilityTable("U", {AvailabilityRow("U", LS2000, TRUE)})
    /\ options = OptionTable(15000)
    /\ quote_items = <<>>
    /\ stored_totals = TotalsOf(<<>>)
    /\ args = NoCall
    /\ result = Pending
    /\ Idle

\* a line item for product 1 in "U" at its base length, priced now
AddQuoteItem ==
    /\ Len(quote_items) < MaxItems
    /\ \E qty \in Quantities, disc \in DiscountPercents, s \in s_picks(1) :
         LET r == calculate_product_price(1, None, Some("U"), s) IN
         /\ r.kind = "price"
         /\ quote_items' = Append(quote_items,
                QuoteItemRow(1, qty, Val(r.price), products[1].base_length,
                             "U", disc))
    /\ stored_totals' = TotalsOf(quote_items')
    /\ UNCHANGED <<catalog, args, result>>
    /\ UNCHANGED elsewhere

\* option 1 attached to a line item at the option's present price
AddQuoteItemOption ==
    /\ \E i \in 1..Len(quote_items) :
         /\ Len(quote_items[i].options) < MaxOptions
         /\ quote_items' = [quote_items EXCEPT ![i].options =
                Append(@, QuoteItemOptionRow(1, 2, options[1].price))]
    /\ stored_totals' = TotalsOf(quote_items')
    /\ UNCHANGED <<catalog, args, result>>
    /\ UNCHANGED elsewhere

UpdateProductBasePrice ==
    /\ \E bp \in BasePrices \ {products[1].base_price} :
         products' = [products EXCEPT ![1].base_price = bp]
    /\ UNCHANGED <<materials, standard_lengths, material_availability, options,
                   quote_items, stored_totals, args, result>>
    /\ UNCHANGED elsewhere

UpdateMaterialRule ==
    /\ \E st \in {"plain", "surcharge"} :
         /\ materials["U"] /= MaterialIn("U", st)
         /\ materials' = [materials EXCEPT !["U"] = MaterialIn("U", st)]
    /\ UNCHANGED <<products, standard_lengths, material_availability, options,
                   quote_items, stored_totals, args, result>>
    /\ UNCHANGED elsewhere

UpdateStandardLengths ==
    /\ \/ /\ StandardLengthRow("U", 2) \notin standard_lengths
          /\ standard_lengths' = standard_lengths \cup {StandardLengthRow("U", 2)}
       \/ /\ StandardLengthRow("U", 2) \in standard_lengths
          /\ standard_lengths' = standard_lengths \ {StandardLengthRow("U", 2)}
    /\ UNCHANGED <<products, materials, material_availability, options,
                   quote_items, stored_totals, args, result>>
    /\ UNCHANGED elsewhere

UpdateMaterialAvailability ==
    /\ \/ /\ AvailabilityRow("U", LS2000, TRUE) \notin material_availability
          /\ material_availability' =
                 material_availability \cup {AvailabilityRow("U", LS2000, TRUE)}
       \/ /\ AvailabilityRow("U", LS2000, TRUE) \in material_availability
          /\ material_availability' =
                 material_availability \ {AvailabilityRow("U", LS2000, TRUE)}
    /\ UNCHANGED <<products, materials, standard_lengths, options,
                   quote_items, stored_totals, args, result>>
    /\ UNCHANGED elsewhere

UpdateOptionPrice ==
    /\ \E p \in OptionPrices \ {options[1].price} :
         options' = [options EXCEPT ![1].price = p]
    /\ UNCHANGED <<products, materials, standard_lengths, material_availability,
                   quote_items, stored_totals, args, result>>
    /\ UNCHANGED elsewhere

NextQuote ==
    \/ AddQuoteItem
    \/ AddQuoteItemOption
    \/ UpdateProductBasePrice
    \/ UpdateMaterialRule
    \/ UpdateStandardLengths
    \/ UpdateMaterialAvailability
    \/ UpdateOptionPrice

SpecQuote == InitQuote /\ [][NextQuote]_vars

-----------------------------------------------------------------------------
(* What the claims speak of, read off the state *)

Called == result /= Pending
Priced == Called /\ result.kind = "price"
VariantExists == args.product_id \in DOMAIN products
TheVariant == products[args.product_id]
OverrideGiven == args.material_override \notin {None, Some("")}
OverrideCode == Val(args.material_override)
EffectiveCode == IF OverrideGiven THEN OverrideCode ELSE TheVariant.material
EffectiveLength ==
    IF args.length = None THEN TheVariant.base_length ELSE args.length
TheMaterial == materials[EffectiveCode]
AvailableRecordExists ==
    \E a \in material_availability :
        /\ a.material_code = OverrideCode
        /\ a.product_type = product_type_of(TheVariant.model_number)
        /\ a.is_available

-----------------------------------------------------------------------------
(* C1: a call never returns a price when the variant id has no row or the  *)
(* effective material code (the override when given, else the variant's    *)
(* default) has no Material row: it fails with NotFound.                   *)
C1_NotFoundWhenRecordMissing ==
    (Called /\ (~VariantExists \/ EffectiveCode \notin DOMAIN materials))
        => (result.kind = "NotFound" /\ result.price = None)

C1_Witness ==
    /\ Called /\ VariantExists /\ OverrideGiven
    /\ TheVariant.material \in DOMAIN materials
    /\ OverrideCode \notin DOMAIN materials
    /\ result.kind = "NotFound"

(* C2 as stated: with no available MaterialAvailability record for the      *)
(* (override, product type) the call always fails with MaterialNotAvailable. *)
C2_AsStated ==
    (Called /\ VariantExists /\ OverrideGiven /\ ~AvailableRecordExists)
        => (result.kind = "MaterialNotAvailable" /\ result.price = None)

(* C2: with no available MaterialAvailability record for the (override,    *)
(* product type) the call returns no price: it fails with                  *)
(* MaterialNotAvailable when the override has a Material row, and with     *)
(* NotFound when it has none.                                              *)
C2_NoPriceWhenNotAvailable ==
    (Called /\ VariantExists /\ OverrideGiven /\ ~AvailableRecordExists)
        => /\ result.price = None
           /\ result.kind = IF OverrideCode \in DOMAIN materials
                            THEN "MaterialNotAvailable" ELSE "NotFound"

C2_Witness ==
    /\ Called /\ VariantExists /\ OverrideGiven
    /\ OverrideCode \in DOMAIN materials
    /\ ~AvailableRecordExists
    /\ \E a \in material_availability :
           /\ a.material_code = OverrideCode
           /\ a.product_type = product_type_of(TheVariant.model_number)
           /\ ~a.is_available
    /\ result.kind = "MaterialNotAvailable"

(* C3 as stated: a call whose override equals the variant's default        *)
(* material is never rejected with MaterialNotAvailable.                   *)
C3_AsStated ==
    (Called /\ VariantExists /\ OverrideGiven
        /\ OverrideCode = TheVariant.material)
        => result.kind /= "MaterialNotAvailable"

(* C3: the availability check runs whenever a non-empty override is        *)
(* supplied, also when it equals the variant's default material: such a    *)
(* call is rejected with MaterialNotAvailable exactly when the material    *)
(* has a row and no available record exists, and otherwise has the outcome *)
(* of the same call without an override.                                   *)
C3_CheckedAlsoForDefaultMaterial ==
    (Called /\ VariantExists /\ OverrideGiven
        /\ OverrideCode = TheVariant.material)
        => IF OverrideCode \in DOMAIN materials /\ ~AvailableRecordExists
           THEN result.kind = "MaterialNotAvailable"
           ELSE \E s \in s_picks(args.product_id) :
                    result = calculate_product_price(args.product_id,
                                                     args.length, None, s)

C3_Witness ==
    /\ Called /\ VariantExists /\ OverrideGiven
    /\ OverrideCode = TheVariant.material
    /\ OverrideCode \in DOMAIN materials
    /\ ~AvailableRecordExists
    /\ result.kind = "MaterialNotAvailable"

\* the siblings of the claim: same family, same voltage, material "S"
FamilySiblings ==
    {products[i] : i \in {j \in DOMAIN products :
        /\ products[j].product_family_id = TheVariant.product_family_id
        /\ products[j].voltage = TheVariant.voltage
        /\ products[j].material = "S"}}

\* the rows the code matches: same model number, same voltage, material "S"
ModelNumberSiblings ==
    {products[i] : i \in {j \in DOMAIN products :
        /\ products[j].model_number = TheVariant.model_number
        /\ products[j].voltage = TheVariant.voltage
        /\ products[j].material = "S"}}

(* C4 as stated: with an override that differs from the default material   *)
(* and a sibling (same family, same voltage, material "S"), the base price *)
(* is the sibling's base price plus the override Material's                *)
(* base_price_adder, for every override code.                              *)
C4_AsStated ==
    (Priced /\ OverrideGiven /\ OverrideCode /= TheVariant.material
        /\ FamilySiblings /= {})
        => \E s \in FamilySiblings :
               result.base = Some(s.base_price + TheMaterial.base_price_adder)

(* C4: with an override that differs from the default material, the price  *)
(* is re-based only for the override codes "U" and "T", and on a row with  *)
(* the same model number, the same voltage and material "S": the base      *)
(* price is then such a row's base price plus a flat 20.00 for "U" and     *)
(* 60.00 for "T"; for every other override code it is the variant's own    *)
(* base price.  Material.base_price_adder is not read.                     *)
C4_RebaseOnlyForExoticCodes ==
    (Priced /\ OverrideGiven /\ OverrideCode /= TheVariant.material)
        => /\ (OverrideCode \in {"U", "T"} /\ ModelNumberSiblings /= {})
                => \E s \in ModelNumberSiblings :
                       result.base = Some(s.base_price
                           + (IF OverrideCode = "U" THEN 20000 ELSE 60000))
           /\ OverrideCode \notin {"U", "T"}
                => result.base = Some(TheVariant.base_price)

C4_Witness ==
    /\ Priced /\ OverrideGiven /\ OverrideCode = "U"
    /\ TheVariant.material = "S"
    /\ \E s \in ModelNumberSiblings :
           /\ s.base_price /= TheVariant.base_price
           /\ result.base = Some(s.base_price + 20000)

\* 12 times the length charge of the claim, from the Material row
ClaimedLengthCharge12 ==
    LET extra == Val(EffectiveLength) - TheMaterial.base_length
    IN  IF extra <= 0 THEN 0
        ELSE IF TheMaterial.length_adder_per_inch /= None
             THEN 12 * extra * Val(TheMaterial.length_adder_per_inch)
        ELSE IF TheMaterial.length_adder_per_foot /= None
             THEN extra * Val(TheMaterial.length_adder_per_foot)
        ELSE 0

(* C5 as stated: the length charge is measured from the material's own     *)
(* base_length and uses the rates of the Material record.                  *)
C5_AsStated ==
    (Priced /\ EffectiveLength /= None)
        => 12 * Val(result.length_adder) = ClaimedLengthCharge12

(* C5: the length charge is measured from the variant's base_length and    *)
(* uses rates fixed by material code: with extra = length - variant        *)
(* base_length, a non-zero length with extra > 0 is charged extra x 3.75   *)
(* for "S", 9.17 for "H" and "TS", 40.0 for "U", 50.0 for "T" and nothing  *)
(* for any other code; otherwise the charge is 0.                          *)
C5_LengthChargeFromVariantAndCode ==
    Priced
        => result.length_adder = Some(
             IF EffectiveLength \notin {None, Some(0)}
                /\ Val(EffectiveLength) > Val(TheVariant.base_length)
             THEN (Val(EffectiveLength) - Val(TheVariant.base_length))
                  * (CASE EffectiveCode = "S" -> 3750
                       [] EffectiveCode \in {"H", "TS"} -> 9170
                       [] EffectiveCode = "U" -> 40000
                       [] EffectiveCode = "T" -> 50000
                       [] OTHER -> 0)
             ELSE 0)

C5_Witness ==
    /\ Priced /\ TheVariant.base_length /= None
    /\ TheVariant.base_length /= Some(TheMaterial.base_length)
    /\ Val(EffectiveLength) > Val(TheVariant.base_length)
    /\ Val(result.length_adder) > 0

(* C6 as stated: for a material with length_adder_per_inch set and a       *)
(* length <= the material's base_length the length adjustment is 0,        *)
(* whatever the variant's base length.                                     *)
C6_AsStated ==
    (Priced /\ EffectiveLength /= None
        /\ TheMaterial.length_adder_per_inch /= None
        /\ Val(EffectiveLength) <= TheMaterial.base_length)
        => result.length_adder = Some(0)

(* C6: for every material, every variant that has a base length and every  *)
(* length <= the variant's base_length the length adjustment is 0.         *)
C6_NoChargeUpToVariantBaseLength ==
    (Priced /\ TheVariant.base_length /= None
        /\ Val(EffectiveLength) <= Val(TheVariant.base_length))
        => result.length_adder = Some(0)

C6_Witness ==
    /\ Priced /\ TheVariant.base_length /= None
    /\ args.length \notin {None, Some(0)}
    /\ Val(args.length) <= Val(TheVariant.base_length)
    /\ Val(args.length) > TheMaterial.base_length
    /\ result.length_adder = Some(0)

\* a StandardLength row of the effective material with exactly this length
StandardLengthRowExists ==
    /\ EffectiveLength /= None
    /\ \E s \in standard_lengths :
           s.material_code = EffectiveCode /\ s.length = Val(EffectiveLength)

(* C7: in one call the non-standard length surcharge contributes exactly   *)
(* the material's nonstandard_length_surcharge when the material has       *)
(* has_nonstandard_length_surcharge and no StandardLength row of its code  *)
(* has the requested length, and exactly 0 otherwise; it enters the price  *)
(* once.                                                                   *)
C7_SurchargeExactlyOnce ==
    Priced
        => /\ result.surcharge =
                  IF TheMaterial.has_nonstandard_length_surcharge
                     /\ ~StandardLengthRowExists
                  THEN Some(TheMaterial.nonstandard_length_surcharge)
                  ELSE Some(0)
           /\ Val(result.price) = Val(result.base) + Val(result.length_adder)
                                  + Val(result.surcharge)

C7_Witness ==
    /\ Priced /\ TheMaterial.has_nonstandard_length_surcharge
    /\ EffectiveLength /= None
    /\ ~StandardLengthRowExists
    /\ \E s \in standard_lengths : s.material_code = EffectiveCode
    /\ \E s \in standard_lengths :
           s.material_code /= EffectiveCode /\ s.length = Val(EffectiveLength)
    /\ result.surcharge = Some(300000)
    /\ Val(result.price) = Val(result.base) + Val(result.length_adder) + 300000

(* C8: every call ends with a complete price, with NotFound or with        *)
(* MaterialNotAvailable.                                                   *)
C8_ThreeOutcomes ==
    Called => result.kind \in {"price", "NotFound", "MaterialNotAvailable"}

\* what calculate_product_price returns now for the configuration of an item
PricedNow(item) ==
    {calculate_product_price(item.product_id, item.length,
                             Some(item.material), s) :
        s \in s_picks(item.product_id)}

(* C9: a stored quote item is a snapshot: after any sequence of catalog     *)
(* changes (base prices, material rules, option prices, standard lengths,  *)
(* availability) every QuoteItem.total and the Quote.total are what they   *)
(* were when the rows were stored.                                         *)
C9_TotalsAreSnapshots == TotalsOf(quote_items) = stored_totals

C9_Witness ==
    /\ Len(quote_items) >= 1
    /\ Len(quote_items[1].options) >= 1
    /\ quote_items[1].options[1].price /= options[1].price
    /\ \A r \in PricedNow(quote_items[1]) :
           r.price /= Some(quote_items[1].unit_price)
    /\ quote_total(quote_items) > 0

RECURSIVE OptionAmounts(_, _)
\* price x quantity summed over the first n options of an item
OptionAmounts(item, n) ==
    IF n = 0 THEN 0
    ELSE item.options[n].price * item.options[n].quantity
         + OptionAmounts(item, n - 1)

-----------------------------------------------------------------------------
(* calculate_option_price, src/core/pricing.py *)

OptionReturn(price) == [kind |-> "price", price |-> Some(price)]

\* mutant: a length of 0 counts as no length
length_given_if_truthy(length) == truthy_num(length)

\* length is not None
length_given(length) == length /= None

\* mutant: a fixed option is scaled by the length when one is supplied
fixed_price_scaled(option_price, length) ==
    IF length = None THEN option_price ELSE option_price * Val(length)

\* the "fixed" branch: return option_price
fixed_price(option_price, length) == option_price

\* the "per_inch" branch: option_price * length
per_inch_price(option_price, length) == option_price * Val(length)

\* mutant: the inches are not converted to feet
per_foot_price_unconverted(option_price, length) == option_price * Val(length)

\* the "per_foot" branch: option_price * (length / 12); the calls examined
\* are those whose quotient is a whole number of mills
per_foot_price(option_price, length) == (option_price * Val(length)) \div 12

\* mutant: the else branch rejects the combination
fallback_rejected(option_price) ==
    [kind |-> "ValueError", price |-> None]

\* the else branch: return option_price  # Default to fixed price
fallback_price(option_price) == OptionReturn(option_price)

\* the whole function
calculate_option_price(option_price, option_price_type, length) ==
    IF option_price_type = "fixed"
    THEN OptionReturn(fixed_price(option_price, length))
    ELSE IF option_price_type = "per_inch" /\ length_given(length)
    THEN OptionReturn(per_inch_price(option_price, length))
    ELSE IF option_price_type = "per_foot" /\ length_given(length)
    THEN OptionReturn(per_foot_price(option_price, length))
    ELSE fallback_price(option_price)

OptionPriceValues == {0, 10000, 30000, 40000}

OptionPriceTypes == {"fixed", "per_inch", "per_foot", "per_yard", "PER_INCH", ""}

\* lengths in inches: none, whole feet, and 20 inches
OptionLengths == {None, Some(20)} \cup {Some(12 * k) : k \in 0..MaxLength}

OptionPriceArgs ==
    {a \in [op : {"calculate_option_price"}, option_price : OptionPriceValues,
            option_price_type : OptionPriceTypes, length : OptionLengths] :
        (a.option_price_type = "per_foot" /\ a.length /= None)
            => (a.option_price * Val(a.length)) % 12 = 0}

\* the catalog and the quote a call that reads neither runs beside
InitOption ==
    /\ args \in OptionPriceArgs
    /\ products = [i \in {1} |-> PStd]
    /\ materials = MaterialTable("S", "plain")
    /\ standard_lengths = StandardLengthTable("S", StandardLengthValues)
    /\ material_availability = AvailabilityTable("S", {})
    /\ options = OptionTable(15000)
    /\ quote_items = <<>>
    /\ stored_totals = TotalsOf(<<>>)
    /\ result = Pending
    /\ Idle

CalculateOptionPrice ==
    /\ args.op = "calculate_option_price"
    /\ result = Pending
    /\ result' = calculate_option_price(args.option_price,
                                        args.option_price_type, args.length)
    /\ UNCHANGED <<catalog, quote_items, stored_totals, args>>
    /\ UNCHANGED elsewhere

NextOption == CalculateOptionPrice

SpecOption == InitOption /\ [][NextOption]_vars

-----------------------------------------------------------------------------
(* Claims on calculate_option_price *)

OptionCalled == result /= Pending /\ args.op = "calculate_option_price"

(* C13: calculate_option_price never fails on an unusual combination: for  *)
(* an unrecognized price type, and for per_inch or per_foot without a      *)
(* length, it returns the option's base price unchanged.                   *)
C13_FallbackToBasePrice ==
    (OptionCalled
        /\ \/ args.option_price_type \notin {"fixed", "per_inch", "per_foot"}
           \/ /\ args.option_price_type \in {"per_inch", "per_foot"}
              /\ args.length = None)
        => result = OptionReturn(args.option_price)

C13_Witness ==
    /\ OptionCalled
    /\ args.option_price_type = "per_foot" /\ args.length = None
    /\ args.option_price = 30000
    /\ result.price = Some(30000)

(* C14: with price type per_inch and a length present the price is the     *)
(* base price x length, for every present length including 0; 10.00 per    *)
(* inch at 20 inches gives 200.00.                                         *)
C14_PerInch ==
    (OptionCalled /\ args.option_price_type = "per_inch" /\ args.length /= None)
        => /\ result = OptionReturn(args.option_price * Val(args.length))
           /\ (args.option_price = 10000 /\ args.length = Some(20))
                => result.price = Some(200000)

C14_Witness ==
    /\ OptionCalled /\ args.option_price_type = "per_inch"
    /\ args.option_price = 10000 /\ args.length = Some(0)
    /\ result.price = Some(0)

(* C15: with price type per_foot and a length present the price is the     *)
(* base price x (length / 12), the length being in inches, for every       *)
(* present length including 0; 30.00 per foot at 24 inches gives 60.00.    *)
C15_PerFoot ==
    (OptionCalled /\ args.option_price_type = "per_foot" /\ args.length /= None)
        => /\ 12 * Val(result.price) = args.option_price * Val(args.length)
           /\ result.kind = "price"
           /\ (args.option_price = 30000 /\ args.length = Some(24))
                => result.price = Some(60000)

C15_Witness ==
    /\ OptionCalled /\ args.option_price_type = "per_foot"
    /\ args.option_price = 30000 /\ args.length = Some(24)
    /\ result.price = Some(60000)

(* C16: with price type fixed the price is the base price unchanged, for   *)
(* every base price and whether or not a length is supplied; 40.00 fixed   *)
(* gives 40.00.                                                            *)
C16_Fixed ==
    (OptionCalled /\ args.option_price_type = "fixed")
        => result = OptionReturn(args.option_price)

C16_Witness ==
    /\ OptionCalled /\ args.option_price_type = "fixed"
    /\ args.option_price = 40000 /\ args.length = Some(24)
    /\ result.price = Some(40000)

-----------------------------------------------------------------------------
(* Reading the totals of a stored quote, src/core/models/quote.py *)

\* the QuoteItemOption rows an item may carry
StoredOptionRows == {QuoteItemOptionRow(1, 1, 15000), QuoteItemOptionRow(1, 2, 18000)}

RECURSIVE SeqsUpTo(_, _)
\* the sequences over S of length at most n
SeqsUpTo(S, n) ==
    IF n = 0 THEN {<<>>}
    ELSE SeqsUpTo(S, n - 1)
         \cup {Append(s, x) : s \in {q \in SeqsUpTo(S, n - 1) : Len(q) = n - 1},
                              x \in S}

\* the QuoteItem rows a quote may hold
StoredItems ==
    {[QuoteItemRow(1, qty, 445000, Some(2), "U", disc) EXCEPT !.options = os] :
        qty \in Quantities, disc \in DiscountPercents,
        os \in SeqsUpTo(StoredOptionRows, MaxOptions)}

ReadTotalsArgs ==
    [op |-> "totals", product_id |-> 0, length |-> None,
     material_override |-> None]

InitTotals ==
    /\ args = ReadTotalsArgs
    /\ quote_items \in SeqsUpTo(StoredItems, MaxQuoteLen)
    /\ stored_totals = TotalsOf(quote_items)
    /\ products = [i \in {1} |-> PStd]
    /\ materials = MaterialTable("U", "plain")
    /\ standard_lengths = StandardLengthTable("U", {})
    /\ material_availability =
           AvailabilityTable("U", {AvailabilityRow("U", LS2000, TRUE)})
    /\ options = OptionTable(15000)
    /\ result = Pending
    /\ Idle

\* Quote.total and every QuoteItem.total are read
ReadTotals ==
    /\ args.op = "totals"
    /\ result = Pending
    /\ result' = [kind |-> "totals",
                  items |-> TotalsOf(quote_items).items,
                  quote |-> TotalsOf(quote_items).quote]
    /\ UNCHANGED <<catalog, quote_items, stored_totals, args>>
    /\ UNCHANGED elsewhere

NextTotals == ReadTotals

SpecTotals == InitTotals /\ [][NextTotals]_vars

-----------------------------------------------------------------------------
(* Claims on the totals *)

TotalsRead == result /= Pending /\ args.op = "totals"

\* unit_price x quantity plus price x quantity of every option
SubtotalOf(item) ==
    item.unit_price * item.quantity + OptionAmounts(item, Len(item.options))

(* C11: QuoteItem.total is subtotal - discount_amount with discount_amount  *)
(* = subtotal x (discount_percent / 100): the percentage is taken on the   *)
(* whole subtotal, options included, once.                                 *)
C11_LineTotal ==
    TotalsRead =>
        \A i \in 1..Len(quote_items) :
            LET item == quote_items[i] IN
            /\ 100 * discount_amount(item) = SubtotalOf(item) * item.discount_percent
            /\ item_total(item) = SubtotalOf(item) - discount_amount(item)
            /\ 100 * result.items[i] =
                   SubtotalOf(item) * (100 - item.discount_percent)

C11_Witness ==
    /\ TotalsRead
    /\ \E i \in 1..Len(quote_items) :
           /\ quote_items[i].discount_percent = 10
           /\ quote_items[i].quantity = 2
           /\ Len(quote_items[i].options) >= 1
           /\ quote_items[i].options[1].quantity = 2
           /\ result.items[i] = ((2 * 445000 + 2 * 18000) * 9) \div 10

RECURSIVE ItemTotals(_, _)
\* the line totals of the first n items, added up
ItemTotals(items, n) ==
    IF n = 0 THEN 0
    ELSE (SubtotalOf(items[n]) * (100 - items[n].discount_percent)) \div 100
         + ItemTotals(items, n - 1)

(* C12: Quote.total is the sum of QuoteItem.total over the quote's items,   *)
(* for any list of items, and 0 for a quote with no items.                 *)
C12_QuoteTotal ==
    TotalsRead =>
        /\ result.quote = ItemTotals(quote_items, Len(quote_items))
        /\ quote_items = <<>> => result.quote = 0

C12_Witness ==
    /\ TotalsRead
    /\ Len(quote_items) = 2
    /\ result.items[1] /= result.items[2]
    /\ quote_items[1].discount_percent = 10
    /\ result.quote = result.items[1] + result.items[2]
    /\ result.quote > 0

-----------------------------------------------------------------------------
(* Calls with long probes, for the rates of the length adder *)

\* inches beyond the variant's base length
ExtraLengths == (1..MaxLength) \cup {5, 20, 24}

RateLengths == {Some(b + e) : b \in {1, 2, 3}, e \in ExtraLengths}

RateArgs ==
    [op : {"calculate_product_price"}, product_id : {1, 2},
     length : RateLengths, material_override : Overrides \ {Some("")}]

\* every material is available for every product type
InitRates ==
    /\ args \in RateArgs
    /\ products \in ProductTables
    /\ \E st \in {"plain", "surcharge"} :
           materials = MaterialTable(code_read(products, args), st)
    /\ standard_lengths =
           StandardLengthTable(code_read(products, args), StandardLengthValues)
    /\ material_availability =
           AvailabilityTable(code_read(products, args),
               {AvailabilityRow(code_read(products, args), ty, TRUE) :
                    ty \in ProductTypes})
    /\ options = OptionTable(15000)
    /\ quote_items = <<>>
    /\ stored_totals = TotalsOf(<<>>)
    /\ result = Pending
    /\ Idle

SpecRates == InitRates /\ [][Next]_vars

-----------------------------------------------------------------------------
(* Claims on the length rates, the default length and the missing S row *)

\* the extra length of the call: length beyond the variant's base length
ExtraLength == Val(EffectiveLength) - Val(TheVariant.base_length)

(* C17: for an extra length e > 0 the length adder is e x 3.75 for S,      *)
(* e x 9.17 for H and TS, e x 40.0 for U and e x 50.0 for T; 20 extra      *)
(* inches of S add 75.00, 24 of H or TS add 220.08, 5 of U add 200.00 and  *)
(* 2 of T add 100.00.                                                      *)
C17_LengthRates ==
    (Priced /\ TheVariant.base_length /= None /\ ExtraLength > 0)
        => /\ EffectiveCode = "S"
                => result.length_adder = Some(ExtraLength * 3750)
           /\ EffectiveCode \in {"H", "TS"}
                => result.length_adder = Some(ExtraLength * 9170)
           /\ EffectiveCode = "U"
                => result.length_adder = Some(ExtraLength * 40000)
           /\ EffectiveCode = "T"
                => result.length_adder = Some(ExtraLength * 50000)
           /\ (EffectiveCode = "S" /\ ExtraLength = 20)
                => result.length_adder = Some(75000)
           /\ (EffectiveCode \in {"H", "TS"} /\ ExtraLength = 24)
                => result.length_adder = Some(220080)
           /\ (EffectiveCode = "U" /\ ExtraLength = 5)
                => result.length_adder = Some(200000)
           /\ (EffectiveCode = "T" /\ ExtraLength = 2)
                => result.length_adder = Some(100000)

C17_Witness ==
    /\ Priced /\ TheVariant.base_length /= None
    /\ EffectiveCode = "TS" /\ ExtraLength = 24
    /\ result.length_adder = Some(220080)

(* C18: for a variant that has a base length, the call with length omitted  *)
(* and the call with length equal to the variant's base length have the    *)
(* same outcome, all other arguments being equal.                          *)
C18_OmittedLengthIsBaseLength ==
    (Called /\ VariantExists /\ TheVariant.base_length /= None)
        => /\ args.length = None
                => \E s \in s_picks(args.product_id) :
                       result = calculate_product_price(args.product_id,
                                    TheVariant.base_length,
                                    args.material_override, s)
           /\ args.length = TheVariant.base_length
                => \E s \in s_picks(args.product_id) :
                       result = calculate_product_price(args.product_id,
                                    None, args.material_override, s)

C18_Witness ==
    /\ Priced /\ TheVariant.base_length /= None
    /\ args.length = None
    /\ TheMaterial.has_nonstandard_length_surcharge
    /\ StandardLengthRowExists
    /\ result.surcharge = Some(0)

-----------------------------------------------------------------------------
(* The three pricing operations side by side *)

InitCalls == Init \/ InitOption \/ InitTotals

NextCalls == CalculateProductPrice \/ CalculateOptionPrice \/ ReadTotals

SpecCalls == InitCalls /\ [][NextCalls]_vars

(* C20: the pricing operations change nothing: a call of                   *)
(* calculate_product_price (priced or failing), of calculate_option_price  *)
(* or a read of the QuoteItem/Quote totals leaves the catalog (variants,   *)
(* materials, standard lengths, availability, options) and the quote rows  *)
(* exactly as they were.                                                   *)
C20_CallsChangeNothing ==
    [][catalog' = catalog /\ quote_items' = quote_items]_vars

C20_Witness ==
    /\ args.op = "calculate_product_price"
    /\ result /= Pending
    /\ result.kind = "price"
    /\ Val(result.price) /= products[args.product_id].base_price

-----------------------------------------------------------------------------
(* Claims on determinism, sign, product type, error order, null base length *)

(* C22: two calls with the same arguments against the same catalog return   *)
(* the same outcome, also when several rows match a lookup: the outcome of *)
(* a call is the one outcome the arguments and the catalog allow.          *)
C22_SameOutcome ==
    (Called /\ args.op = "calculate_product_price")
        => \A s \in s_picks(args.product_id) :
               result = calculate_product_price(args.product_id, args.length,
                                                args.material_override, s)

(* C23: with non-negative base prices, rates, premiums and surcharges and   *)
(* a non-negative length, a priced call returns a price >= 0, each of its  *)
(* parts being >= 0, with no clamping.                                     *)
C23_PriceNonNegative ==
    Priced
        => /\ Val(result.price) >= 0
           /\ Val(result.base) >= 0
           /\ Val(result.length_adder) >= 0
           /\ Val(result.surcharge) >= 0
           /\ Val(result.price) = Val(result.base) + Val(result.length_adder)
                                  + Val(result.surcharge)

C23_Witness ==
    /\ Priced /\ TheVariant.base_length /= None
    /\ EffectiveCode = "T"
    /\ Val(result.length_adder) > Val(result.base)
    /\ Val(result.price) > 0

\* an available MaterialAvailability record of the override for type ty
AvailableFor(ty) ==
    \E a \in material_availability :
        a.material_code = OverrideCode /\ a.product_type = ty /\ a.is_available

(* C24: the product type of the availability lookup is the part of the      *)
(* model number before the first "-", a "/N" suffix kept: LS2000-115VAC-   *)
(* S-10 gives LS2000 and LS7000/2-115VAC-H-10 gives LS7000/2, so a dual-   *)
(* point variant is matched against LS7000/2 records, never against LS7000 *)
(* records.                                                                *)
C24_ProductTypeOfLookup ==
    (Called /\ VariantExists /\ OverrideGiven /\ OverrideCode \in DOMAIN materials)
        => /\ TheVariant.model_number = MN_LS7000_2_H
                => (result.kind = "MaterialNotAvailable" <=> ~AvailableFor(LS7000_2))
           /\ TheVariant.model_number \in {MN_LS2000_S, MN_LS2000_H}
                => (result.kind = "MaterialNotAvailable" <=> ~AvailableFor(LS2000))

C24_Witness ==
    /\ Called /\ VariantExists /\ OverrideGiven
    /\ TheVariant.model_number = MN_LS7000_2_H
    /\ AvailableFor(LS7000) /\ ~AvailableFor(LS7000_2)
    /\ result.kind = "MaterialNotAvailable"

(* C25: failures are reported in a fixed order: a missing variant before    *)
(* anything about the material, and a missing Material record as NotFound  *)
(* before the availability check, so an override with neither a Material   *)
(* record nor an availability record fails with NotFound.                  *)
C25_FailureOrder ==
    (Called /\ args.op = "calculate_product_price")
        => /\ ~VariantExists
                => (result.kind = "NotFound" /\ result.what = "Product")
           /\ (VariantExists /\ EffectiveCode \notin DOMAIN materials)
                => (result.kind = "NotFound" /\ result.what = "Material")

C25_Witness ==
    /\ Called /\ VariantExists /\ OverrideGiven
    /\ OverrideCode \notin DOMAIN materials
    /\ \A a \in material_availability : a.material_code /= OverrideCode
    /\ result.kind = "NotFound" /\ result.what = "Material"

(* C27 as stated: for a variant whose base length is null, a call with      *)
(* length omitted charges neither a length adder nor the surcharge.        *)
C27_AsStated ==
    (Priced /\ TheVariant.base_length = None /\ args.length = None)
        => /\ result.length_adder = Some(0)
           /\ result.surcharge = Some(0)
           /\ result.price = result.base

(* C27: for a variant whose base length is null, a call with length         *)
(* omitted charges no length adder; it charges the non-standard length     *)
(* surcharge exactly when the effective material has                       *)
(* has_nonstandard_length_surcharge, no StandardLength row matching a      *)
(* missing length.                                                         *)
C27_NullLengthStillSurcharged ==
    (Priced /\ TheVariant.base_length = None /\ args.length = None)
        => /\ result.length_adder = Some(0)
           /\ result.surcharge =
                  Some(IF TheMaterial.has_nonstandard_length_surcharge
                       THEN TheMaterial.nonstandard_length_surcharge ELSE 0)
           /\ Val(result.price) = Val(result.base) + Val(result.surcharge)

C27_Witness ==
    /\ Priced /\ TheVariant.base_length = None /\ args.length = None
    /\ TheMaterial.has_nonstandard_length_surcharge
    /\ \E s \in standard_lengths : s.material_code = EffectiveCode
    /\ result.surcharge = Some(300000)

-----------------------------------------------------------------------------
(* ProductService.is_material_available_for_product,                       *)
(* src/core/services/product_service.py                                    *)

\* the rows the MaterialAvailability query of the service matches
availability_rows(material_code, product_type) ==
    {a \in material_availability :
        a.material_code = material_code /\ a.product_type = product_type}

\* availability is not None and availability.is_available, availability
\* being what .first() returned
is_material_available_for_product(material_code, product_type, availability) ==
    availability /= None /\ Val(availability).is_available

(* C26: is_material_available_for_product(m, t) agrees with the             *)
(* availability check of calculate_product_price for every catalog, also   *)
(* with several MaterialAvailability rows for one (material, type): it is  *)
(* true exactly when the pricing check accepts override m on a variant of  *)
(* type t.                                                                 *)
C26_ServiceAgreesWithPricing ==
    (Called /\ VariantExists /\ OverrideGiven /\ OverrideCode \in DOMAIN materials)
        => \A availability \in
                 first(availability_rows(OverrideCode,
                           product_type_of(TheVariant.model_number))) :
               is_material_available_for_product(OverrideCode,
                   product_type_of(TheVariant.model_number), availability)
               <=> result.kind /= "MaterialNotAvailable"

-----------------------------------------------------------------------------
(* calculate_product_price calls side by side, one lookup at a time *)

\* mutant: the locals of every call live in one shared place
frame_of_shared(p) == 1

\* where the locals of call p live: in its own frame
frame_of(p) == p

\* a call that has not started: its arguments, and nothing in its locals
Frame(a) ==
    [pc |-> "product", args |-> a, outcome |-> Pending,
     locals |-> [product |-> None, length |-> None, material_code |-> "",
                 material |-> None, price |-> 0, ladder |-> 0]]

InitConcurrent ==
    /\ products = [i \in {1, 2} |-> IF i = 1 THEN PStd ELSE PDual]
    /\ \E c \in {<<"surcharge", TRUE>>, <<"surcharge", FALSE>>, <<"absent", FALSE>>} :
         /\ materials = MaterialTable("U", c[1])
         /\ material_availability =
                AvailabilityTable("U", IF c[2]
                    THEN {AvailabilityRow("U", ty, TRUE) : ty \in ProductTypes}
                    ELSE {AvailabilityRow("U", LS7000, TRUE)})
    /\ standard_lengths = StandardLengthTable("U", {1})
    /\ options = OptionTable(15000)
    /\ quote_items = <<>>
    /\ stored_totals = TotalsOf(<<>>)
    /\ args = NoCall
    /\ result = Pending
    /\ calls \in [1..MaxCalls ->
                    {Frame([op |-> "calculate_product_price", product_id |-> i,
                            length |-> la[1], material_override |-> la[2]]) :
                        i \in ProductIds,
                        la \in {<<None, Some("U")>>, <<Some(3), None>>}}]
    /\ main_window = <<>>
    /\ quote_tab = <<>>

\* the locals call p reads
locals_of(p) == calls[frame_of(p)].locals

Finish(p, outcome) ==
    calls' = [calls EXCEPT ![p].pc = "done", ![p].outcome = outcome]

Continue(p, pc, locals) ==
    calls' = [calls EXCEPT ![p].pc = pc, ![frame_of(p)].locals = locals]

ConcurrentFrame ==
    UNCHANGED <<catalog, quote_items, stored_totals, args, result,
                main_window, quote_tab>>

\* the product query, the default length and the material code
StepProduct(p) ==
    /\ calls[p].pc = "product"
    /\ LET a == calls[p].args IN
       IF query_product(a.product_id) = None
       THEN Finish(p, NotFound("Product"))
       ELSE LET product == Val(query_product(a.product_id)) IN
            Continue(p, "material",
                [locals_of(p) EXCEPT
                    !.product = Some(product),
                    !.length = default_length(product, a.length),
                    !.material_code =
                        effective_material_code(product, a.material_override)])
    /\ ConcurrentFrame

\* the Material query
StepMaterial(p) ==
    /\ calls[p].pc = "material"
    /\ LET l == locals_of(p) IN
       IF query_material(l.material_code) = None
       THEN Finish(p, NotFound("Material"))
       ELSE Continue(p, "availability",
                [l EXCEPT !.material = query_material(l.material_code)])
    /\ ConcurrentFrame

\* the availability check
StepAvailability(p) ==
    /\ calls[p].pc = "availability"
    /\ LET l == locals_of(p) IN
       IF /\ availability_is_checked(Val(l.product), calls[p].args.material_override)
          /\ ~query_availability(l.material_code,
                                 product_type_of(Val(l.product).model_number))
       THEN Finish(p, Raise("MaterialNotAvailable"))
       ELSE Continue(p, "base", l)
    /\ ConcurrentFrame

\* the base price and the material price adjustment, with its S row query
StepBasePrice(p) ==
    /\ calls[p].pc = "base"
    /\ LET l == locals_of(p) IN
       \E s \in first(s_material_products(Val(l.product))) :
           Continue(p, "length",
               [l EXCEPT !.price = base_price_of(Val(l.product), Val(l.material),
                                       calls[p].args.material_override, s)])
    /\ ConcurrentFrame

\* the length price adjustment
StepLength(p) ==
    /\ calls[p].pc = "length"
    /\ LET l == locals_of(p) IN
       IF length_compare_raises(Val(l.product), Val(l.material), l.length)
       THEN Finish(p, Raise("TypeError"))
       ELSE Continue(p, "surcharge",
                [l EXCEPT !.ladder = length_adder(Val(l.product), Val(l.material),
                                                  l.material_code, l.length)])
    /\ ConcurrentFrame

\* the non-standard length surcharge and the return
StepSurcharge(p) ==
    /\ calls[p].pc = "surcharge"
    /\ LET l == locals_of(p) IN
       Finish(p, Return(l.price, l.ladder,
                  IF surcharge_applies(Val(l.material), l.material_code, l.length)
                  THEN Val(l.material).nonstandard_length_surcharge ELSE 0))
    /\ ConcurrentFrame

NextConcurrent ==
    \E p \in 1..MaxCalls :
        \/ StepProduct(p)
        \/ StepMaterial(p)
        \/ StepAvailability(p)
        \/ StepBasePrice(p)
        \/ StepLength(p)
        \/ StepSurcharge(p)

SpecConcurrent == InitConcurrent /\ [][NextConcurrent]_vars

(* C21: calls of calculate_product_price may run side by side on a catalog  *)
(* that is not modified: whatever the interleaving of their lookup steps,  *)
(* each call ends with a result it gives when run alone, and no call       *)
(* affects another.                                                        *)
C21_InterleavedAsAlone ==
    \A p \in DOMAIN calls :
        calls[p].pc = "done" =>
            calls[p].outcome \in
                {calculate_product_price(calls[p].args.product_id, calls[p].args.length,
                                         calls[p].args.material_override, s) :
                     s \in s_picks(calls[p].args.product_id)}

C21_Witness ==
    /\ DOMAIN calls /= {}
    /\ calls[1].pc = "done" /\ calls[1].outcome.kind = "price"
    /\ \E p \in DOMAIN calls :
           /\ calls[p].pc = "done"
           /\ calls[p].args.product_id /= calls[1].args.product_id
           /\ calls[p].outcome.kind = "TypeError"

-----------------------------------------------------------------------------
(* The quote window: QuoteTab (ui/quote_tab.py), MainWindow (ui/main_window.py) *)

\* self.tabs.count() after the four addTab calls
TabCount == 4

RECURSIVE split_whitespace(_)
\* str.split() without a separator: the runs of non-whitespace characters
split_whitespace(s) ==
    LET Whitespace == {" ", "\t", "\n"} IN
    IF s = <<>> THEN <<>>
    ELSE IF Head(s) \in Whitespace THEN split_whitespace(Tail(s))
    ELSE LET n == IF \E k \in 1..Len(s) : s[k] \in Whitespace
                  THEN CHOOSE k \in 1..Len(s) :
                           s[k] \in Whitespace /\ \A j \in 1..(k - 1) : s[j] \notin Whitespace
                  ELSE Len(s) + 1
         IN <<SubSeq(s, 1, n - 1)>> \o split_whitespace(SubSeq(s, n, Len(s)))

RECURSIVE lower(_)
\* str.lower()
lower(s) ==
    LET UpperLetters ==
            <<"A","B","C","D","E","F","G","H","I","J","K","L","M",
              "N","O","P","Q","R","S","T","U","V","W","X","Y","Z">>
        LowerLetters ==
            <<"a","b","c","d","e","f","g","h","i","j","k","l","m",
              "n","o","p","q","r","s","t","u","v","w","x","y","z">>
        lower_char(c) ==
            IF \E i \in 1..Len(UpperLetters) : UpperLetters[i] = c
            THEN LowerLetters[CHOOSE i \in 1..Len(UpperLetters) : UpperLetters[i] = c]
            ELSE c
    IN  IF s = <<>> THEN <<>> ELSE <<lower_char(Head(s))>> \o lower(Tail(s))

\* str.endswith(suffix)
endswith(s, suffix) ==
    /\ Len(s) >= Len(suffix)
    /\ SubSeq(s, Len(s) - Len(suffix) + 1, Len(s)) = suffix

\* sub in s
contains(s, sub) ==
    \E i \in 0..(Len(s) - Len(sub)) : SubSeq(s, i + 1, i + Len(sub)) = sub

\* bool(x) of an optional text: a missing value and the empty text are falsy
truthy_text(o) == o /= None /\ Val(o) /= <<>>

\* d.get(key, default) on an optional entry
get(entry, default) == IF entry = None THEN default ELSE Val(entry)

\* model_prices.get(base_model, 0.0)
model_prices(base_model) ==
    CASE base_model = LS2000 -> 800000
      [] base_model = <<"L","S","2","1","0","0">> -> 700000
      [] base_model = <<"L","S","6","0","0","0">> -> 900000
      [] base_model = LS7000 -> 1200000
      [] base_model = LS7000_2 -> 1500000
      [] base_model = <<"L","S","8","0","0","0">> -> 1100000
      [] base_model = <<"L","S","8","0","0","0","/","2">> -> 1400000
      [] base_model = <<"L","T","9","0","0","0">> -> 1800000
      [] base_model = <<"F","S","1","0","0","0","0">> -> 950000
      [] OTHER -> 0

\* a product_info dict: every key it may hold, None where the key is missing
ProductInfo(model, application) == [model |-> model, application |-> application]

\* a specs dict: every key update_pricing looks at, None where the key is missing
NoSpecs ==
    [material |-> None, exotic_metals |-> None, oring |-> None, housing |-> None,
     high_temp |-> None, extended_probe |-> None, remote_display |-> None,
     output_type |-> None, probe_length |-> None, cable_length |-> None]

\* what one first-match if/elif chain over "text in value" adds
first_match(entry, table) ==
    IF entry = None THEN 0
    ELSE IF \E i \in 1..Len(table) : contains(Val(entry), table[i][1])
    THEN table[CHOOSE i \in 1..Len(table) :
                   /\ contains(Val(entry), table[i][1])
                   /\ \A j \in 1..(i - 1) : ~contains(Val(entry), table[j][1])][2]
    ELSE 0

\* a feature flag that is present and truthy
flag_price(entry, amount) == IF entry /= None /\ Val(entry) THEN amount ELSE 0

\* the loop of update_pricing over self.specs.items()
options_price_of(specs, base_model) ==
    LET over_length(entry, standard, rate) ==
            IF entry /= None /\ Val(entry) > standard
            THEN (Val(entry) - standard) * rate ELSE 0
    IN
      first_match(specs.material,
          << <<<<"H","a","s","t","e","l","l","o","y">>, 400000>>,
             <<<<"A","l","u","m","i","n","u","m">>, 50000>> >>)
    + first_match(specs.exotic_metals,
          << <<<<"T","i","t","a","n","i","u","m">>, 600000>>,
             <<<<"M","o","n","e","l">>, 500000>> >>)
    + first_match(specs.oring,
          << <<<<"K","a","l","r","e","z">>, 120000>>,
             <<<<"P","T","F","E">>, 80000>>,
             <<<<"E","P","D","M">>, 40000>> >>)
    + first_match(specs.housing,
          << <<<<"E","x","p","l","o","s","i","o","n","-","P","r","o","o","f">>, 300000>>,
             <<<<"S","t","a","i","n","l","e","s","s"," ","S","t","e","e","l">>, 200000>> >>)
    + flag_price(specs.high_temp, 150000)
    + flag_price(specs.extended_probe, 100000)
    + flag_price(specs.remote_display, 250000)
    + first_match(specs.output_type,
          << <<<<"H","A","R","T">>, 300000>>,
             <<<<"M","o","d","b","u","s"," ","R","T","U">>, 250000>> >>)
    + over_length(specs.probe_length, 10,
                  IF base_model \in {LS2000, <<"L","S","2","1","0","0">>}
                  THEN 8000 ELSE 12000)
    + over_length(specs.cable_length, 10, 5000)

\* QuoteTab.update_pricing on the tab qt: model.split()[0] raises IndexError
\* when the model has no word
update_pricing(qt) ==
    LET words == split_whitespace(get(qt.product_info.model, <<>>))
    IN  IF words = <<>>
        THEN [qt EXCEPT !.raised = "IndexError"]
        ELSE LET base_price == model_prices(words[1])
                 options_price == options_price_of(qt.specs, words[1])
             IN  [qt EXCEPT !.pricing =
                     [base_price |-> base_price, options_price |-> options_price,
                      total_price |-> base_price + options_price]]

RECURSIVE specs_rows(_, _)
\* the rows update_specifications puts in the specs table, for the first n
\* categories
specs_rows(specs, n) ==
    LET config_categories ==
            << <<"Essential Properties", <<"material">> >>,
               <<"Dimensions", <<"probe_length", "cable_length">> >>,
               <<"Material Options", <<"exotic_metals", "oring">> >>,
               <<"Housing", <<"housing">> >>,
               <<"Additional Features",
                 <<"high_temp", "extended_probe", "remote_display", "output_type">> >> >>
    IN  IF n = 0 THEN <<>>
        ELSE LET present == SelectSeq(config_categories[n][2],
                                      LAMBDA k : specs[k] /= None)
             IN  specs_rows(specs, n - 1)
                 \o (IF present = <<>> THEN <<>>
                     ELSE <<config_categories[n][1]>> \o present)

\* QMessageBox.warning / QMessageBox.information, or no message box ("none")
Message(kind, title, file_path) ==
    [kind |-> kind, title |-> title, file_path |-> file_path]

\* what the latest handler of the window was given and what it showed
Handled(handler, index, product_info, dialog, message) ==
    [handler |-> handler, index |-> index, product_info |-> product_info,
     dialog |-> dialog, message |-> message]

\* mutant: the Next button stays enabled on the last tab
next_enabled_through_last(current_index) == current_index < TabCount

\* self.next_button.setEnabled(current_index < self.tabs.count() - 1)
next_enabled_at(current_index) == current_index < TabCount - 1

\* MainWindow.update_button_states on the window w
update_button_states(w) ==
    [w EXCEPT !.prev_enabled = w.current_index > 0,
              !.next_enabled = next_enabled_at(w.current_index)]

\* self.tabs.setCurrentIndex(index): currentChanged reaches on_tab_changed
\* only when the index changes
setCurrentIndex(w, index) ==
    IF index = w.current_index THEN w
    ELSE update_button_states([w EXCEPT !.current_index = index])

DOT_PDF == <<".","p","d","f">>

\* mutant: the path of the dialog is reported as it is
export_path_unchanged(file_path) == file_path

\* the path export_quote reports for the path the dialog returned
export_path(file_path) ==
    IF ~endswith(lower(file_path), DOT_PDF) THEN file_path \o DOT_PDF ELSE file_path

SpecsInputs ==
    {NoSpecs,
     [NoSpecs EXCEPT !.material = Some(<<"H","a","s","t","e","l","l","o","y"," ","C">>)],
     [NoSpecs EXCEPT !.oring = Some(<<"P","T","F","E">>), !.high_temp = Some(TRUE)],
     [NoSpecs EXCEPT !.housing = Some(<<"S","t","a","i","n","l","e","s","s"," ",
                                        "S","t","e","e","l">>),
                     !.probe_length = Some(12),
                     !.cable_length = Some(15), !.remote_display = Some(FALSE)]}

UIFrame ==
    UNCHANGED <<catalog, quote_items, stored_totals, args, result, calls>>

\* MainWindow.__init__ with its QuoteTab.__init__
InitUI ==
    /\ products = [i \in {1} |-> PStd]
    /\ materials = MaterialTable("U", "absent")
    /\ standard_lengths = StandardLengthTable("U", {})
    /\ material_availability = AvailabilityTable("U", {})
    /\ options = OptionTable(15000)
    /\ quote_items = <<>>
    /\ stored_totals = TotalsOf(<<>>)
    /\ args = NoCall
    /\ result = Pending
    /\ calls = <<>>
    /\ main_window =
           update_button_states(
               [current_index |-> 0, prev_enabled |-> TRUE, next_enabled |-> TRUE,
                last |-> Handled("__init__", 0, ProductInfo(None, None), None,
                                 Message("none", "", None))])
    /\ quote_tab =
           [product_info |-> ProductInfo(None, None), specs |-> NoSpecs,
            pricing |-> [base_price |-> 0, options_price |-> 0, total_price |-> 0],
            product_summary |-> None, specs_table |-> <<>>,
            last_call |-> "__init__", raised |-> ""]

\* QuoteTab.update_product_info(product_info)
UpdateProductInfo ==
    /\ \E model \in {None, Some(<<>>), Some(<<" ">>), Some(LS2000),
                     Some(LS7000_2 \o <<" ","D","u","a","l">>), Some(<<"X","1">>)} :
         quote_tab' = update_pricing(
             [quote_tab EXCEPT
                 !.product_info = ProductInfo(model, None),
                 !.product_summary =
                     IF get(model, <<>>) /= <<>> THEN model ELSE None,
                 !.last_call = "update_product_info",
                 !.raised = ""])
    /\ UNCHANGED main_window
    /\ UIFrame

\* QuoteTab.update_specifications(specs)
UpdateSpecifications ==
    /\ \E specs \in SpecsInputs :
         quote_tab' = update_pricing(
             [quote_tab EXCEPT
                 !.specs = specs,
                 !.specs_table = specs_rows(specs, 5),
                 !.last_call = "update_specifications",
                 !.raised = ""])
    /\ UNCHANGED main_window
    /\ UIFrame

\* MainWindow.next_tab
NextTab ==
    /\ LET current == main_window.current_index
           w == IF current < TabCount - 1
                THEN setCurrentIndex(main_window, current + 1) ELSE main_window
       IN  main_window' =
               [w EXCEPT !.last = Handled("next_tab", current, ProductInfo(None, None),
                                          None, Message("none", "", None))]
    /\ UNCHANGED quote_tab
    /\ UIFrame

\* MainWindow.prev_tab
PrevTab ==
    /\ LET current == main_window.current_index
           w == IF current > 0
                THEN setCurrentIndex(main_window, current - 1) ELSE main_window
       IN  main_window' =
               [w EXCEPT !.last = Handled("prev_tab", current, ProductInfo(None, None),
                                          None, Message("none", "", None))]
    /\ UNCHANGED quote_tab
    /\ UIFrame

\* a click on a tab of the tab bar
TabClicked ==
    /\ \E index \in 0..(TabCount - 1) :
         main_window' =
             [setCurrentIndex(main_window, index) EXCEPT
                 !.last = Handled("tab_clicked", main_window.current_index,
                                  ProductInfo(None, None), None,
                                  Message("none", "", None))]
    /\ UNCHANGED quote_tab
    /\ UIFrame

\* MainWindow.save_quote
SaveQuote ==
    /\ LET product == quote_tab.product_info
           message == IF ~truthy_text(product.model)
                      THEN Message("warning", "Missing Product", None)
                      ELSE Message("information", "Quote Saved", None)
       IN  main_window' =
               [main_window EXCEPT !.last =
                   Handled("save_quote", main_window.current_index,
                           product, None, message)]
    /\ UNCHANGED quote_tab
    /\ UIFrame

\* MainWindow.export_quote, with the path QFileDialog.getSaveFileName returns
\* (empty when the dialog is cancelled)
ExportQuote ==
    /\ LET product == quote_tab.product_info IN
       IF ~truthy_text(product.model)
       THEN main_window' =
               [main_window EXCEPT !.last =
                   Handled("export_quote", main_window.current_index, product, None,
                           Message("warning", "Missing Product", None))]
       ELSE \E file_path \in {<<>>, <<"q">>, <<"q">> \o DOT_PDF, <<"q",".","P","D","F">>} :
               main_window' =
                   [main_window EXCEPT !.last =
                       Handled("export_quote", main_window.current_index,
                               product, Some(file_path),
                               IF file_path = <<>> THEN Message("none", "", None)
                               ELSE Message("information", "Export PDF",
                                            Some(export_path(file_path))))]
    /\ UNCHANGED quote_tab
    /\ UIFrame

NextUI ==
    \/ UpdateProductInfo
    \/ UpdateSpecifications
    \/ NextTab
    \/ PrevTab
    \/ TabClicked
    \/ SaveQuote
    \/ ExportQuote

SpecUI == InitUI /\ [][NextUI]_vars

(* C28: after any sequence of next_tab, prev_tab and clicks on a tab, the   *)
(* current index is within 0..count-1, next_tab on the last tab and        *)
(* prev_tab on the first tab change nothing, and the Previous button is    *)
(* enabled exactly when the index is > 0, the Next button exactly when the *)
(* index is < count-1.                                                     *)
C28_TabsAndButtons ==
    /\ main_window.current_index \in 0..(TabCount - 1)
    /\ main_window.prev_enabled <=> main_window.current_index > 0
    /\ main_window.next_enabled <=> main_window.current_index < TabCount - 1
    /\ (main_window.last.handler = "next_tab" /\ main_window.last.index = TabCount - 1)
           => main_window.current_index = TabCount - 1
    /\ (main_window.last.handler = "prev_tab" /\ main_window.last.index = 0)
           => main_window.current_index = 0

C28_Witness ==
    /\ main_window.last.handler = "next_tab"
    /\ main_window.last.index = TabCount - 1
    /\ main_window.current_index = TabCount - 1
    /\ main_window.prev_enabled
    /\ ~main_window.next_enabled

\* save_quote and export_quote with no product model selected only warn, and
\* a cancelled file dialog reports nothing
WarnsWithoutProduct ==
    main_window.last.handler \in {"save_quote", "export_quote"} =>
        /\ ~truthy_text(main_window.last.product_info.model)
               => main_window.last.message =
                      Message("warning", "Missing Product", None)
        /\ main_window.last.message.kind = "information"
               => /\ truthy_text(main_window.last.product_info.model)
                  /\ main_window.last.message.title =
                         (IF main_window.last.handler = "save_quote"
                          THEN "Quote Saved" ELSE "Export PDF")
        /\ main_window.last.dialog = Some(<<>>)
               => main_window.last.message = Message("none", "", None)

(* C29 as stated: save_quote and export_quote never report success while   *)
(* no product model is selected (each shows the 'Missing Product' warning  *)
(* and nothing else), export_quote reports nothing when the file dialog is *)
(* cancelled, and any path it reports ends with '.pdf'.                    *)
C29_AsStated ==
    /\ WarnsWithoutProduct
    /\ main_window.last.message.file_path /= None
           => endswith(Val(main_window.last.message.file_path), DOT_PDF)

(* C29 amended: the same, but the path export_quote reports ends with      *)
(* '.pdf' in any letter case: a path that already ends with '.PDF' is      *)
(* reported as it is.                                                      *)
C29_ReportedPathEndsWithPdfAnyCase ==
    /\ WarnsWithoutProduct
    /\ main_window.last.message.file_path /= None
           => /\ endswith(lower(Val(main_window.last.message.file_path)), DOT_PDF)
              /\ main_window.last.message.file_path \in
                     {main_window.last.dialog,
                      Some(Val(main_window.last.dialog) \o DOT_PDF)}

C29_Witness ==
    /\ main_window.last.handler = "export_quote"
    /\ main_window.last.dialog = Some(<<"q",".","P","D","F">>)
    /\ main_window.last.message =
           Message("information", "Export PDF", main_window.last.dialog)

(* C30: after any sequence of update_product_info and                      *)
(* update_specifications calls, also with a missing or empty model and     *)
(* with specifications before any product, every call completes without    *)
(* raising and the stored pricing has total_price = base_price +           *)
(* options_price, with base_price = 0 when the model is empty or unknown   *)
(* (its first word is not a key of model_prices).                          *)
C30_EveryCallCompletes ==
    LET words == split_whitespace(get(quote_tab.product_info.model, <<>>)) IN
    /\ quote_tab.raised = ""
    /\ quote_tab.pricing.total_price =
           quote_tab.pricing.base_price + quote_tab.pricing.options_price
    /\ (words = <<>> \/ model_prices(words[1]) = 0)
           => quote_tab.pricing.base_price = 0

=============================================================================
